---- MODULE Spec2Model ----
(***************************************************************************)
(* Model of xcso-rust (src/src/main.rs): conversion of one Xbox disc image *)
(* into the CISO container by compress_iso.                                *)
(*                                                                         *)
(* Bytes are abstracted to lengths and positions.  A source image is its   *)
(* length, the presence of the media signature at the two probed offsets,  *)
(* and, for every 2048-byte block, the length the LZ4 encoder yields for   *)
(* it after trimming (compress_block_v2).  An output file is its length,   *)
(* whether the 24-byte header sits at offset 0, the index written into it  *)
(* (with the offset it was written at) and the set of blocks whose data    *)
(* it holds.  main's loop over the command line calls compress_iso once    *)
(* per argument that is_iso accepts (SpecMain); Spec is one call of        *)
(* compress_iso on its own.                                                *)
(*                                                                         *)
(* The split threshold of the program is 4290732032 bytes, i.e. about two  *)
(* million blocks per file; SplitLimit stands in for it at a scale the     *)
(* model checker can reach (about ten blocks per file).  All other sizes   *)
(* are the program's.                                                      *)
(***************************************************************************)
EXTENDS Integers, Sequences, FiniteSets, TLC

\* ---- program constants -------------------------------------------------
CISO_HEADER_SIZE == 24
CISO_BLOCK_SIZE == 2048
XBOX_MEDIA_HEADER_REDUMP_OFFSET == 405864448
XBOX_MEDIA_HEADER_XDVDFS_OFFSET == 65536
REDUMP_IMAGE_OFFSET == 405798912
SIGNATURE_LEN == 20
CSO_ALIGN == 2
PAD_UNIT == 1024
RAW_MARGIN == 12
INDEX_ENTRY_SIZE == 4
FIRST_FILE == 1
SPLIT_FILE == 2
U32_BITS == 32
\* 2^32 - FATX_MAX_SIZE = 4294967296 - 4290732032: how far the split
\* threshold lies below the first value a u32 cannot hold
U32_HEADROOM == 4235264

\* ---- bounds of the model -----------------------------------------------
\* command lines have at most this many arguments after the program name
MaxArgs == 3
\* stand-in for FATX_MAX_SIZE (see the header comment); the value is the
\* running offset of a 32-block image after nine raw blocks, so that the
\* offset also meets the threshold exactly
SplitLimit == 18588
\* images have MinBlocks .. MinBlocks + MaxExtraBlocks whole blocks
MaxExtraBlocks == 1
\* per-block compressed lengths repeat with this period
PatternLen == 2

\* a file carrying a signature at 0x10000 is at least 0x10014 bytes long
MinPayload == XBOX_MEDIA_HEADER_XDVDFS_OFFSET + SIGNATURE_LEN
MinBlocks == MinPayload \div CISO_BLOCK_SIZE

\* trimmed encoder outputs considered for a full block: highly
\* compressible (three alignments), the two sides of the 12-byte margin,
\* and an incompressible block (stored LZ4 block plus its 4-byte size)
CompLens == {21, 22, 2035, 2036, 2052}

\* lengths of the tail after the last whole block
Tails == {0, 20, 2047}

Payloads ==
    {p \in {k * CISO_BLOCK_SIZE + t :
              k \in MinBlocks .. (MinBlocks + MaxExtraBlocks), t \in Tails} :
        p >= MinPayload}

Min(a, b) == IF a < b THEN a ELSE b
Max(a, b) == IF a > b THEN a ELSE b

\* A source file: its length and whether the 20 bytes at each probed
\* offset equal "MICROSOFT*XBOX*MEDIA".
Sources ==
    {[len |-> REDUMP_IMAGE_OFFSET + p, redump |-> TRUE, xdvdfs |-> x] :
        p \in Payloads, x \in BOOLEAN}
    \cup {[len |-> p, redump |-> FALSE, xdvdfs |-> TRUE] : p \in Payloads}
    \cup {[len |-> l, redump |-> FALSE, xdvdfs |-> FALSE] :
            l \in {0, 100} \cup Payloads}

VARIABLES
    pc,            \* position in compress_iso
    err,           \* the error compress_iso returned, "" if none
    src,           \* the source file
    pattern,       \* trimmed compressed length of block b is pattern[b % PatternLen]
    src_pos,       \* read cursor of iso_file
    image_details, \* CsoImage
    fs,            \* output files by name (k stands for <input>.k.cso)
    f1pos,         \* write cursor of dest_f1
    dest_f2,       \* Option<File>: name 0 is None
    block_index,   \* the in-memory index
    write_pos,     \* running write offset
    block,         \* loop counter
    stored,        \* history: what each processed block's step did
    opened,        \* history: names passed to File::create, in order
    lost,          \* history: blocks whose data a later File::create truncated away
    args,          \* main: the command line after the program name
    argn,          \* main: position of the argument iterator
    mpc,           \* main: position in main
    attempts,      \* history: the calls of compress_iso and how each returned
    probe          \* a file handed to get_image_offset and the result

outside == <<args, argn, mpc, attempts, probe>>

vars == <<pc, err, src, pattern, src_pos, image_details, fs, f1pos, dest_f2,
          block_index, write_pos, block, stored, opened, lost,
          args, argn, mpc, attempts, probe>>

FileNames == {FIRST_FILE, SPLIT_FILE}

NoFile == [exists |-> FALSE, len |-> 0, hdr |-> FALSE, idxoff |-> 0,
           idx |-> <<>>, blocks |-> {}]
NoImage == [version |-> 0, align |-> 0, total_bytes |-> 0, total_blocks |-> 0]
None == [name |-> 0, pos |-> 0]
\* a path File::open fails on
NoSource == [len |-> -1, redump |-> FALSE, xdvdfs |-> FALSE]
NoProbe == [file |-> NoSource, result |-> 0, called |-> FALSE]

\* ---- pure helpers ------------------------------------------------------
\* seek and read_exact of 20 bytes at off, results ignored: buf holds the
\* bytes read ("sig" when they are the signature), and on a file that
\* ends before off + 20 the bytes the file still has followed by what buf
\* held before ("partial"), or buf as it was when the file ends at or
\* before off.  f.redump and f.xdvdfs say whether the bytes the file has
\* at that offset agree with the signature.  A partial read happens only
\* while the rest of buf is still zero, so "partial" is not the signature.
read_exact(f, off, agrees, buf) ==
    IF f.len >= off + SIGNATURE_LEN
    THEN (IF agrees THEN "sig" ELSE "other")
    ELSE IF f.len > off THEN "partial" ELSE buf

\* variant: the raw layout probed first
get_image_offset_raw_first(f) ==
    LET buf1 == read_exact(f, XBOX_MEDIA_HEADER_XDVDFS_OFFSET, f.xdvdfs, "zeros")
        buf2 == read_exact(f, XBOX_MEDIA_HEADER_REDUMP_OFFSET, f.redump, buf1)
    IN IF buf1 = "sig" THEN 0
       ELSE IF buf2 = "sig" THEN REDUMP_IMAGE_OFFSET
       ELSE -1

\* get_image_offset: -1 stands for Err
get_image_offset(f) ==
    LET buf1 == read_exact(f, XBOX_MEDIA_HEADER_REDUMP_OFFSET, f.redump, "zeros")
        buf2 == read_exact(f, XBOX_MEDIA_HEADER_XDVDFS_OFFSET, f.xdvdfs, buf1)
    IN IF buf1 = "sig" THEN REDUMP_IMAGE_OFFSET
       ELSE IF buf2 = "sig" THEN 0
       ELSE -1

get_cso_info(f, image_offset) ==
    LET byte_len == f.len - image_offset
    IN [version |-> 2, align |-> CSO_ALIGN, total_bytes |-> byte_len,
        total_blocks |-> byte_len \div CISO_BLOCK_SIZE]

\* File::create: creates the file or truncates the existing one
FileCreate(fsys, name) ==
    [fsys EXCEPT ![name] = [NoFile EXCEPT !.exists = TRUE]]

\* n bytes written at position pos
FileWrite(file, pos, n) == [file EXCEPT !.len = Max(file.len, pos + n)]

\* compress_block_v2 on block b of the image
compress_block_v2(pat, b) == pat[(b % PatternLen) + 1]

\* variant: the threshold taken one block too high
NeedSplitLate(wp) == wp > SplitLimit + CISO_BLOCK_SIZE

\* variant: a split already at the threshold
NeedSplitAtLimit(wp) == wp >= SplitLimit

NeedSplit(wp) == wp > SplitLimit

align_b == 2 ^ CSO_ALIGN

\* variant: the remainder written instead of its complement
AlignPadRemainder(wp) == wp % align_b

AlignPad(wp) ==
    LET align == wp % align_b
    IN IF align > 0 THEN align_b - align ELSE 0

\* A u32 index entry is kept as its two bit fields: offset is bits 0-30,
\* flag is bit 31 (0x80000000), so the entry's value is
\* offset + 2^31 * flag.  (TLC's integers are 32-bit signed.)
\* write_pos as u32 >> shift: the low 32 bits of wp shifted right, which
\* for shift >= 1 are the low 32 - shift bits of wp \div 2^shift and leave
\* bit 31 clear.
IndexEntry(wp, shift) ==
    [offset |-> (wp \div (2 ^ shift)) % (2 ^ (U32_BITS - shift)),
     flag |-> FALSE]

\* variant: the tie goes to the compressed form
PreferRawStrict(compressed_len, read) == compressed_len + RAW_MARGIN > read

PreferRaw(compressed_len, read) == compressed_len + RAW_MARGIN >= read

\* block_index[block] |= 0x80000000
SetFlag(e) == [e EXCEPT !.flag = TRUE]

OffsetField(e) == e.offset
IsCompressed(e) == e.flag

ZeroEntry == [offset |-> 0, flag |-> FALSE]

\* variant: the remainder written instead of its complement
PadLenRemainder(end) == end % PAD_UNIT

\* variant: nothing appended to a file that is already aligned
PadLenToBoundary(end) ==
    IF end % PAD_UNIT = 0 THEN 0 ELSE PAD_UNIT - (end % PAD_UNIT)

PadLen(end) == PAD_UNIT - (end % PAD_UNIT)

Zeros(n) == [i \in 1 .. n |-> ZeroEntry]

\* ---- the state machine -------------------------------------------------
Init ==
    /\ pc = "start"
    /\ err = ""
    /\ src \in Sources
    /\ pattern \in [1 .. PatternLen -> CompLens]
    /\ src_pos = 0
    /\ image_details = NoImage
    /\ fs = [n \in FileNames |-> NoFile]
    /\ f1pos = 0
    /\ dest_f2 = None
    /\ block_index = <<>>
    /\ write_pos = 0
    /\ block = 0
    /\ stored = <<>>
    /\ opened = <<>>
    /\ lost = {}
    /\ args = <<>>
    /\ argn = 0
    /\ mpc = "call"
    /\ attempts = <<>>
    /\ probe = NoProbe

\* variant: the output file created before the layout is known
GetCsoInfoAfterCreate ==
    /\ pc = "start"
    /\ src # NoSource
    /\ UNCHANGED outside
    /\ fs' = FileCreate(fs, FIRST_FILE)
    /\ opened' = Append(opened, FIRST_FILE)
    /\ LET off == get_image_offset(src)
       IN IF off < 0
          THEN /\ pc' = "failed"
               /\ err' = "could not get image offset"
               /\ UNCHANGED <<image_details, src_pos>>
          ELSE /\ pc' = "create"
               /\ image_details' = get_cso_info(src, off)
               /\ src_pos' = off
               /\ UNCHANGED err
    /\ UNCHANGED <<src, pattern, f1pos, dest_f2, block_index, write_pos,
                   block, stored, lost>>

\* File::open and get_cso_info
GetCsoInfo ==
    /\ pc = "start"
    /\ src # NoSource
    /\ UNCHANGED outside
    /\ LET off == get_image_offset(src)
       IN IF off < 0
          THEN /\ pc' = "failed"
               /\ err' = "could not get image offset"
               /\ UNCHANGED <<image_details, src_pos>>
          ELSE /\ pc' = "create"
               /\ image_details' = get_cso_info(src, off)
               /\ src_pos' = off
               /\ UNCHANGED err
    /\ UNCHANGED <<src, pattern, fs, f1pos, dest_f2, block_index, write_pos,
                   block, stored, opened, lost>>

\* File::create of <input>.1.cso
CreateDest ==
    /\ pc = "create"
    /\ UNCHANGED outside
    /\ fs' = FileCreate(fs, FIRST_FILE)
    /\ lost' = lost \cup fs[FIRST_FILE].blocks
    /\ opened' = Append(opened, FIRST_FILE)
    /\ f1pos' = 0
    /\ dest_f2' = None
    /\ pc' = "header"
    /\ UNCHANGED <<err, src, pattern, src_pos, image_details, block_index,
                   write_pos, block, stored>>

\* write_cso_info
WriteCsoInfo ==
    /\ pc = "header"
    /\ UNCHANGED outside
    /\ fs' = [fs EXCEPT ![FIRST_FILE] =
                [FileWrite(@, f1pos, CISO_HEADER_SIZE) EXCEPT
                    !.hdr = (f1pos = 0)]]
    /\ f1pos' = f1pos + CISO_HEADER_SIZE
    /\ pc' = "index"
    /\ UNCHANGED <<err, src, pattern, src_pos, image_details, dest_f2,
                   block_index, write_pos, block, stored, opened, lost>>

\* variant: write_pos started at the end of the header
WritePlaceholderIndexHeaderPos ==
    /\ pc = "index"
    /\ UNCHANGED outside
    /\ LET bi == Zeros(image_details.total_blocks + 1)
           n == INDEX_ENTRY_SIZE * Len(bi)
       IN /\ block_index' = bi
          /\ fs' = [fs EXCEPT ![FIRST_FILE] =
                      [FileWrite(@, f1pos, n) EXCEPT
                          !.idxoff = f1pos, !.idx = bi]]
          /\ f1pos' = f1pos + n
          /\ write_pos' = f1pos
    /\ block' = 0
    /\ pc' = "loop"
    /\ UNCHANGED <<err, src, pattern, src_pos, image_details, dest_f2,
                   stored, opened, lost>>

\* the placeholder index and the first write_pos
WritePlaceholderIndex ==
    /\ pc = "index"
    /\ UNCHANGED outside
    /\ LET bi == Zeros(image_details.total_blocks + 1)
           n == INDEX_ENTRY_SIZE * Len(bi)
       IN /\ block_index' = bi
          /\ fs' = [fs EXCEPT ![FIRST_FILE] =
                      [FileWrite(@, f1pos, n) EXCEPT
                          !.idxoff = f1pos, !.idx = bi]]
          /\ f1pos' = f1pos + n
          /\ write_pos' = f1pos + n
    /\ block' = 0
    /\ pc' = "loop"
    /\ UNCHANGED <<err, src, pattern, src_pos, image_details, dest_f2,
                   stored, opened, lost>>

\* one iteration of the block loop
BlockStep ==
    /\ pc = "loop"
    /\ UNCHANGED outside
    /\ block < image_details.total_blocks
    /\ LET split == NeedSplit(write_pos)
           fs0 == IF split THEN FileCreate(fs, SPLIT_FILE) ELSE fs
           f2 == IF split THEN [name |-> SPLIT_FILE, pos |-> 0] ELSE dest_f2
           wp0 == IF split THEN 0 ELSE write_pos
           pad == AlignPad(wp0)
           wp1 == wp0 + pad
           entry == IndexEntry(wp1, image_details.align)
           active == IF f2.name # 0 THEN f2.name ELSE FIRST_FILE
           cursor == IF f2.name # 0 THEN f2.pos ELSE f1pos
           read == Min(CISO_BLOCK_SIZE, src.len - src_pos)
           compressed == compress_block_v2(pattern, block)
           raw == PreferRaw(compressed, read)
           n == IF raw THEN read ELSE compressed
       IN /\ fs' = [fs0 EXCEPT ![active] =
                      [FileWrite(@, cursor, pad + n) EXCEPT
                          !.blocks = @ \cup {block}]]
          /\ IF f2.name # 0
             THEN /\ dest_f2' = [f2 EXCEPT !.pos = cursor + pad + n]
                  /\ UNCHANGED f1pos
             ELSE /\ f1pos' = cursor + pad + n
                  /\ dest_f2' = f2
          /\ block_index' = [block_index EXCEPT ![block + 1] =
                                IF raw THEN entry ELSE SetFlag(entry)]
          /\ write_pos' = wp1 + n
          /\ src_pos' = src_pos + read
          /\ opened' = IF split THEN Append(opened, SPLIT_FILE) ELSE opened
          /\ lost' = IF split THEN lost \cup fs[SPLIT_FILE].blocks ELSE lost
          /\ stored' = Append(stored,
                [file |-> active, seq |-> Len(opened'), off |-> cursor + pad,
                 n |-> n, comp |-> ~raw, read |-> read, clen |-> compressed,
                 pad |-> pad, wp0 |-> wp0, wp1 |-> wp1, split |-> split,
                 before |-> write_pos])
    /\ block' = block + 1
    /\ UNCHANGED <<pc, err, src, pattern, image_details>>

\* variant: the terminator put one entry too early
FinalizeOneEarly ==
    /\ pc = "loop"
    /\ UNCHANGED outside
    /\ block = image_details.total_blocks
    /\ LET last == Len(block_index) - 1
           bi == [block_index EXCEPT ![last] =
                    IndexEntry(write_pos, image_details.align)]
           n == INDEX_ENTRY_SIZE * Len(bi)
       IN /\ block_index' = bi
          /\ fs' = [fs EXCEPT ![FIRST_FILE] =
                      [FileWrite(@, CISO_HEADER_SIZE, n) EXCEPT
                          !.idxoff = CISO_HEADER_SIZE, !.idx = bi]]
          /\ f1pos' = CISO_HEADER_SIZE + n
    /\ pc' = "pad"
    /\ UNCHANGED <<err, src, pattern, src_pos, image_details, dest_f2,
                   write_pos, block, stored, opened, lost>>

\* the terminator entry and the rewrite of the index
Finalize ==
    /\ pc = "loop"
    /\ UNCHANGED outside
    /\ block = image_details.total_blocks
    /\ LET last == Len(block_index)
           bi == [block_index EXCEPT ![last] =
                    IndexEntry(write_pos, image_details.align)]
           n == INDEX_ENTRY_SIZE * Len(bi)
       IN /\ block_index' = bi
          /\ fs' = [fs EXCEPT ![FIRST_FILE] =
                      [FileWrite(@, CISO_HEADER_SIZE, n) EXCEPT
                          !.idxoff = CISO_HEADER_SIZE, !.idx = bi]]
          /\ f1pos' = CISO_HEADER_SIZE + n
    /\ pc' = "pad"
    /\ UNCHANGED <<err, src, pattern, src_pos, image_details, dest_f2,
                   write_pos, block, stored, opened, lost>>

\* pad_file on one file: seek to the end, write the padding
pad_file(file) == FileWrite(file, file.len, PadLen(file.len))

PadFiles ==
    /\ pc = "pad"
    /\ UNCHANGED outside
    /\ LET fs1 == [fs EXCEPT ![FIRST_FILE] = pad_file(@)]
       IN IF dest_f2.name # 0
          THEN /\ fs' = [fs1 EXCEPT ![dest_f2.name] = pad_file(@)]
               /\ dest_f2' = [dest_f2 EXCEPT !.pos = fs'[dest_f2.name].len]
          ELSE /\ fs' = fs1
               /\ UNCHANGED dest_f2
    /\ f1pos' = fs'[FIRST_FILE].len
    /\ pc' = "done"
    /\ UNCHANGED <<err, src, pattern, src_pos, image_details, block_index,
                   write_pos, block, stored, opened, lost>>

Next ==
    \/ GetCsoInfo
    \/ CreateDest
    \/ WriteCsoInfo
    \/ WritePlaceholderIndex
    \/ BlockStep
    \/ Finalize
    \/ PadFiles

Spec == Init /\ [][Next]_vars

\* ---- main --------------------------------------------------------------
convvars == <<pc, err, src, pattern, src_pos, image_details, fs, f1pos,
              dest_f2, block_index, write_pos, block, stored, opened, lost>>

is_iso(arg) == arg.ext \in {"xiso", "iso"}

\* the files the arguments of a command line name: a raw-layout image of
\* the smallest size, a file of that size without signature, no file
GoodSource == [len |-> MinPayload, redump |-> FALSE, xdvdfs |-> TRUE]
NoSigSource == [len |-> MinPayload, redump |-> FALSE, xdvdfs |-> FALSE]

ArgKinds ==
    {[ext |-> "iso", file |-> GoodSource],
     [ext |-> "xiso", file |-> GoodSource],
     [ext |-> "iso", file |-> NoSigSource],
     [ext |-> "iso", file |-> NoSource],
     [ext |-> "mp4", file |-> GoodSource],
     [ext |-> "ISO", file |-> GoodSource]}

ArgLists == UNION {[1 .. n -> ArgKinds] : n \in 0 .. MaxArgs}

\* every block of an image on the command line compresses to this length
MainPattern == [i \in 1 .. PatternLen |-> 2036]

\* The arguments are taken to name different paths, so each call of
\* compress_iso starts with none of its output files present.
InitMain ==
    /\ args \in ArgLists
    /\ argn = 1
    /\ mpc = "main"
    /\ attempts = <<>>
    /\ probe = NoProbe
    /\ pc = "idle"
    /\ err = ""
    /\ src = NoSource
    /\ pattern = MainPattern
    /\ src_pos = 0
    /\ image_details = NoImage
    /\ fs = [n \in FileNames |-> NoFile]
    /\ f1pos = 0
    /\ dest_f2 = None
    /\ block_index = <<>>
    /\ write_pos = 0
    /\ block = 0
    /\ stored = <<>>
    /\ opened = <<>>
    /\ lost = {}

\* the usage line when there is no argument, else the loop
MainBegin ==
    /\ mpc = "main"
    /\ mpc' = IF Len(args) = 0 THEN "exit" ELSE "loop"
    /\ UNCHANGED <<convvars, args, argn, attempts, probe>>

\* filter(|x| is_iso(x)) drops the argument
SkipArg ==
    /\ mpc = "loop"
    /\ argn <= Len(args)
    /\ ~is_iso(args[argn])
    /\ argn' = argn + 1
    /\ UNCHANGED <<convvars, args, mpc, attempts, probe>>

\* compress_iso(fname) is entered
CallCompressIso ==
    /\ mpc = "loop"
    /\ argn <= Len(args)
    /\ is_iso(args[argn])
    /\ mpc' = "converting"
    /\ pc' = "start"
    /\ src' = args[argn].file
    /\ attempts' = Append(attempts, [arg |-> argn, result |-> "running"])
    /\ UNCHANGED <<err, pattern, src_pos, image_details, fs, f1pos, dest_f2,
                   block_index, write_pos, block, stored, opened, lost,
                   args, argn, probe>>

\* File::open returns Err
OpenFails ==
    /\ pc = "start"
    /\ src = NoSource
    /\ pc' = "failed"
    /\ err' = "open"
    /\ UNCHANGED <<src, pattern, src_pos, image_details, fs, f1pos, dest_f2,
                   block_index, write_pos, block, stored, opened, lost,
                   outside>>

\* a create, write, seek, read or encoder call returns Err, passed on by ?
IoError ==
    /\ pc \in {"create", "header", "index", "loop", "pad"}
    /\ pc' = "failed"
    /\ err' = "io"
    /\ UNCHANGED <<src, pattern, src_pos, image_details, fs, f1pos, dest_f2,
                   block_index, write_pos, block, stored, opened, lost,
                   outside>>

\* variant: the first Err ends the loop
CompressIsoReturnAbort ==
    /\ mpc = "converting"
    /\ pc \in {"done", "failed"}
    /\ attempts' = [attempts EXCEPT ![Len(attempts)].result =
                        IF pc = "done" THEN "Ok" ELSE err]
    /\ argn' = IF pc = "done" THEN argn + 1 ELSE Len(args) + 1
    /\ mpc' = "loop"
    /\ pc' = "idle"
    /\ err' = ""
    /\ src' = NoSource
    /\ src_pos' = 0
    /\ image_details' = NoImage
    /\ fs' = [n \in FileNames |-> NoFile]
    /\ f1pos' = 0
    /\ dest_f2' = None
    /\ block_index' = <<>>
    /\ write_pos' = 0
    /\ block' = 0
    /\ stored' = <<>>
    /\ opened' = <<>>
    /\ lost' = {}
    /\ UNCHANGED <<pattern, args, probe>>

\* the match on compress_iso's result: both arms print and continue
CompressIsoReturn ==
    /\ mpc = "converting"
    /\ pc \in {"done", "failed"}
    /\ attempts' = [attempts EXCEPT ![Len(attempts)].result =
                        IF pc = "done" THEN "Ok" ELSE err]
    /\ argn' = argn + 1
    /\ mpc' = "loop"
    /\ pc' = "idle"
    /\ err' = ""
    /\ src' = NoSource
    /\ src_pos' = 0
    /\ image_details' = NoImage
    /\ fs' = [n \in FileNames |-> NoFile]
    /\ f1pos' = 0
    /\ dest_f2' = None
    /\ block_index' = <<>>
    /\ write_pos' = 0
    /\ block' = 0
    /\ stored' = <<>>
    /\ opened' = <<>>
    /\ lost' = {}
    /\ UNCHANGED <<pattern, args, probe>>

\* the iterator is exhausted
MainExit ==
    /\ mpc = "loop"
    /\ argn > Len(args)
    /\ mpc' = "exit"
    /\ UNCHANGED <<convvars, args, argn, attempts, probe>>

NextMain ==
    \/ MainBegin
    \/ SkipArg
    \/ CallCompressIso
    \/ OpenFails
    \/ GetCsoInfo
    \/ CreateDest
    \/ WriteCsoInfo
    \/ WritePlaceholderIndex
    \/ BlockStep
    \/ Finalize
    \/ PadFiles
    \/ IoError
    \/ CompressIsoReturn
    \/ MainExit

SpecMain == InitMain /\ [][NextMain]_vars

\* ---- get_image_offset on its own ----------------------------------------
\* file lengths around the two probed offsets
ProbeLens ==
    {0, 100,
     XBOX_MEDIA_HEADER_XDVDFS_OFFSET - 1,
     XBOX_MEDIA_HEADER_XDVDFS_OFFSET,
     XBOX_MEDIA_HEADER_XDVDFS_OFFSET + 1,
     XBOX_MEDIA_HEADER_XDVDFS_OFFSET + SIGNATURE_LEN - 1,
     XBOX_MEDIA_HEADER_XDVDFS_OFFSET + SIGNATURE_LEN,
     XBOX_MEDIA_HEADER_XDVDFS_OFFSET + SIGNATURE_LEN + 1,
     REDUMP_IMAGE_OFFSET,
     XBOX_MEDIA_HEADER_REDUMP_OFFSET - 1,
     XBOX_MEDIA_HEADER_REDUMP_OFFSET,
     XBOX_MEDIA_HEADER_REDUMP_OFFSET + 1,
     XBOX_MEDIA_HEADER_REDUMP_OFFSET + SIGNATURE_LEN - 1,
     XBOX_MEDIA_HEADER_REDUMP_OFFSET + SIGNATURE_LEN,
     XBOX_MEDIA_HEADER_REDUMP_OFFSET + SIGNATURE_LEN + 1,
     XBOX_MEDIA_HEADER_REDUMP_OFFSET + CISO_BLOCK_SIZE}

ProbeFiles ==
    {[len |-> l, redump |-> r, xdvdfs |-> x] :
        l \in ProbeLens, r \in BOOLEAN, x \in BOOLEAN}

InitProbe ==
    /\ probe \in {[file |-> f, result |-> 0, called |-> FALSE] : f \in ProbeFiles}
    /\ args = <<>>
    /\ argn = 0
    /\ mpc = "call"
    /\ attempts = <<>>
    /\ pc = "idle"
    /\ err = ""
    /\ src = NoSource
    /\ pattern = MainPattern
    /\ src_pos = 0
    /\ image_details = NoImage
    /\ fs = [n \in FileNames |-> NoFile]
    /\ f1pos = 0
    /\ dest_f2 = None
    /\ block_index = <<>>
    /\ write_pos = 0
    /\ block = 0
    /\ stored = <<>>
    /\ opened = <<>>
    /\ lost = {}

GetImageOffset ==
    /\ ~probe.called
    /\ probe' = [probe EXCEPT !.result = get_image_offset(probe.file),
                              !.called = TRUE]
    /\ UNCHANGED <<convvars, args, argn, mpc, attempts>>

NextProbe == GetImageOffset

SpecProbe == InitProbe /\ [][NextProbe]_vars

\* ---- properties --------------------------------------------------------
Processed == 1 .. Len(stored)

RECURSIVE SumRead(_)
SumRead(log) == IF log = <<>> THEN 0 ELSE log[1].read + SumRead(Tail(log))

\* C1: for every processed block with r bytes read and trimmed compressed
\* length c, the compressed bytes are written and bit 31 of its index entry
\* is set iff c + 12 < r; otherwise the r raw bytes are written and bit 31
\* is clear.
C1_RawOrCompressed ==
    \A b \in Processed :
        LET s == stored[b]
        IN /\ s.comp <=> (s.clen + 12 < s.read)
           /\ IsCompressed(block_index[b]) <=> s.comp
           /\ s.n = (IF s.clen + 12 < s.read THEN s.clen ELSE s.read)

C1_Witness ==
    \E a, b \in Processed :
        /\ stored[a].comp /\ stored[a].clen + 13 = stored[a].read
        /\ ~stored[b].comp /\ stored[b].clen + 12 = stored[b].read
        /\ IsCompressed(block_index[a]) /\ ~IsCompressed(block_index[b])

\* C2: every output file begins with the header at offset 0, followed at
\* offset 24 by the full index (final values once the conversion is done),
\* and no block data is written to a file without header and placeholder
\* index.
C2_HeaderAndIndexInEveryFile ==
    /\ \A f \in FileNames :
          fs[f].blocks # {} =>
             /\ fs[f].hdr
             /\ fs[f].idxoff = CISO_HEADER_SIZE
             /\ Len(fs[f].idx) = image_details.total_blocks + 1
    /\ pc = "done" =>
          \A f \in FileNames :
             fs[f].exists => fs[f].hdr /\ fs[f].idx = block_index

\* C3: after a successful conversion the bytes read over all processed
\* blocks add up to total_bytes.
C3_WholePayloadRead ==
    pc = "done" => SumRead(stored) = image_details.total_bytes

\* C4: in the index written to any file the offset fields of adjacent
\* entries never decrease.
C4_IndexMonotone ==
    \A f \in FileNames :
        \A i \in 1 .. (Len(fs[f].idx) - 1) :
            OffsetField(fs[f].idx[i]) <= OffsetField(fs[f].idx[i + 1])

\* C5: after a successful conversion, block i's bytes start at
\* offset_field(entry[i]) << align_shift in the file that received it and
\* (offset_field(entry[i+1]) - offset_field(entry[i])) << align_shift is at
\* least the number of bytes stored for it.
C5_LocatedFromIndex ==
    pc = "done" =>
        \A b \in Processed :
            /\ stored[b].off = OffsetField(block_index[b]) * 4
            /\ (OffsetField(block_index[b + 1]) - OffsetField(block_index[b])) * 4
                  >= stored[b].n

\* C6: every block's data is written at a file offset that is a multiple
\* of 4 and equals offset_field(entry) << 2; an unaligned running offset is
\* padded by exactly 4 - (offset mod 4) bytes, an aligned one by none.
C6_Aligned ==
    \A b \in Processed :
        LET s == stored[b]
        IN /\ s.off % 4 = 0
           /\ s.off = OffsetField(block_index[b]) * 4
           /\ s.pad = (IF s.wp0 % 4 = 0 THEN 0 ELSE 4 - (s.wp0 % 4))

C6_Witness ==
    \E a, b, c \in Processed :
        /\ stored[a].pad = 3
        /\ stored[b].pad = 1
        /\ stored[c].split /\ stored[c].pad = 0 /\ stored[c].off = 0

\* C7: the k-th file opened is <input>.k.cso, and no file holding block
\* data of this conversion is created again.
C7_FreshNames ==
    /\ \A k \in 1 .. Len(opened) : opened[k] = k
    /\ lost = {}

\* C8: after a successful conversion every output file's length is a
\* multiple of 1024.
C8_PaddedLength ==
    pc = "done" => \A f \in FileNames : fs[f].exists => fs[f].len % 1024 = 0

C8_Witness ==
    /\ pc = "done"
    /\ fs[SPLIT_FILE].exists
    /\ write_pos % 1024 = 0
    /\ fs[SPLIT_FILE].len = write_pos + 1024
    /\ fs[FIRST_FILE].len % 1024 = 0

C10_NoOutputOnLayoutError ==
    /\ (~src.redump /\ ~src.xdvdfs) =>
          /\ pc \in {"start", "failed"}
          /\ opened = <<>>
          /\ \A f \in FileNames : fs[f] = NoFile
    /\ pc = "failed" =>
          /\ err = "could not get image offset"
          /\ ~src.redump /\ ~src.xdvdfs
          /\ \A f \in FileNames : ~fs[f].exists

C10_Witness ==
    pc = "failed" /\ ~src.redump /\ ~src.xdvdfs /\ src.len >= MinPayload

\* C11 (SpecMain): every argument with an image extension is attempted
\* exactly once, in argument order, each attempt finished before the next
\* starts; a failed attempt does not stop the later ones, and arguments
\* without an image extension are never attempted.
C11_EveryImageArgAttemptedOnce ==
    LET Attempted == {attempts[k].arg : k \in 1 .. Len(attempts)}
        Image(i) == args[i].ext \in {"iso", "xiso"}
    IN /\ \A k \in 1 .. (Len(attempts) - 1) :
             /\ attempts[k].arg < attempts[k + 1].arg
             /\ attempts[k].result # "running"
       /\ \A i \in Attempted : i \in 1 .. Len(args) /\ Image(i)
       /\ \A i \in 1 .. Len(args) : (Image(i) /\ i < argn) => i \in Attempted
       /\ mpc = "exit" =>
             /\ \A i \in 1 .. Len(args) : Image(i) => i \in Attempted
             /\ \A k \in 1 .. Len(attempts) : attempts[k].result # "running"

C11_Witness ==
    /\ mpc = "exit"
    /\ Len(args) = 3
    /\ Len(attempts) = 2
    /\ attempts[1].result \in {"could not get image offset", "io", "open"}
    /\ attempts[2].result = "Ok"

\* C12 (SpecProbe): get_image_offset returns 0x18300000 when the 20 bytes
\* at 0x18310000 are the signature, whatever is at 0x10000; otherwise 0
\* when the 20 bytes at 0x10000 are the signature; otherwise an error.  A
\* file too short for a read does not match at that offset.
C12_OffsetByLayout ==
    probe.called =>
        LET f == probe.file
            redump == f.len >= 405864448 + 20 /\ f.redump
            raw == f.len >= 65536 + 20 /\ f.xdvdfs
        IN probe.result = (IF redump THEN 405798912 ELSE IF raw THEN 0 ELSE -1)

C12_Witness ==
    /\ probe.called
    /\ probe.file.redump /\ probe.file.xdvdfs
    /\ probe.file.len = 405864448 + 19
    /\ probe.result = 0

\* C13: a per-block step opens a new file iff the running offset it starts
\* with is strictly greater than the threshold; it then resets the offset
\* to 0 before alignment, records offset field 0 for the block and writes
\* the block's data to the file just opened.
C13_SplitStep ==
    \A b \in Processed :
        LET s == stored[b]
            files_before == IF b = 1 THEN 1 ELSE stored[b - 1].seq
        IN /\ s.split <=> (s.before > SplitLimit)
           /\ s.split =>
                 /\ s.seq = files_before + 1
                 /\ s.wp0 = 0 /\ s.pad = 0
                 /\ OffsetField(block_index[b]) = 0
                 /\ s.file = opened[s.seq]
                 /\ s.off = 0
           /\ ~s.split =>
                 /\ s.seq = files_before
                 /\ s.wp0 = s.before

C13_Witness ==
    \E a, b \in Processed :
        /\ stored[a].before = SplitLimit /\ ~stored[a].split
        /\ stored[b].split /\ stored[b].before > SplitLimit
        /\ (b - 1) \in fs[SPLIT_FILE].blocks
        /\ (b - 1) \notin fs[FIRST_FILE].blocks

\* C14: after the loop the terminator entry is the final running offset
\* shifted right by align_shift with bit 31 clear, and it is the last entry
\* of the final index in every output file.
C14_TerminatorInEveryFile ==
    pc = "done" =>
        LET last == image_details.total_blocks + 1
        IN /\ OffsetField(block_index[last]) = write_pos \div 4
           /\ ~IsCompressed(block_index[last])
           /\ \A f \in FileNames :
                 fs[f].exists =>
                    /\ Len(fs[f].idx) = last
                    /\ fs[f].idx[last] = block_index[last]

\* C15: at the start of every per-block step and after the loop,
\* write_pos is the length and the write cursor of the active output file.
C15_WritePosIsFileEnd ==
    pc = "loop" =>
        LET active == IF dest_f2.name # 0 THEN dest_f2.name ELSE FIRST_FILE
            cursor == IF dest_f2.name # 0 THEN dest_f2.pos ELSE f1pos
        IN /\ write_pos = fs[active].len
           /\ write_pos = cursor

C15_Witness ==
    /\ pc = "loop"
    /\ block = image_details.total_blocks
    /\ dest_f2.name = SPLIT_FILE
    /\ Len(opened) = 4
    /\ write_pos > 0
    /\ write_pos = fs[SPLIT_FILE].len
    /\ write_pos # fs[FIRST_FILE].len

\* C16: an offset recorded into the index is at most the threshold plus
\* alignment (per block) or plus one block and alignment (terminator),
\* which is below 2^32, so the cast to u32 loses nothing, the recorded
\* field is write_pos >> 2, below 2^30, and bit 31 is left to the flag.
C16_OffsetFitsU32 ==
    /\ 2048 + 3 < U32_HEADROOM
    /\ \A b \in Processed :
          /\ stored[b].wp1 <= SplitLimit + 3
          /\ stored[b].wp1 - SplitLimit < U32_HEADROOM
          /\ OffsetField(block_index[b]) = stored[b].wp1 \div 4
          /\ OffsetField(block_index[b]) < 2 ^ 30
          /\ IsCompressed(block_index[b]) = stored[b].comp
    /\ pc \in {"pad", "done"} =>
          LET last == image_details.total_blocks + 1
          IN /\ write_pos <= SplitLimit + 3 + 2048
             /\ write_pos - SplitLimit < U32_HEADROOM
             /\ OffsetField(block_index[last]) = write_pos \div 4
             /\ ~IsCompressed(block_index[last])

C16_Witness ==
    /\ pc = "done"
    /\ \E b \in Processed : stored[b].wp1 = SplitLimit /\ ~stored[b].split
    /\ \E b \in Processed : stored[b].before > SplitLimit

\* C17: a per-block step changes only its block's index entry, the
\* finalization only the terminator, no other step any entry of the
\* allocated index; entries of blocks not yet processed and the terminator
\* are 0 until then.
C17_IndexFrame ==
    [][/\ (pc = "loop" /\ pc' = "loop") =>
             \A i \in 1 .. Len(block_index) :
                 i # block + 1 => block_index'[i] = block_index[i]
       /\ (pc = "loop" /\ pc' = "pad") =>
             \A i \in 1 .. (Len(block_index) - 1) :
                 block_index'[i] = block_index[i]
       /\ (pc \notin {"index", "loop"}) => block_index' = block_index
       /\ Len(block_index) > 0 => Len(block_index') = Len(block_index)
       /\ pc' = "loop" =>
             \A i \in (block' + 1) .. Len(block_index') :
                 block_index'[i] = ZeroEntry]_vars

C17_Witness ==
    /\ pc = "loop"
    /\ block = image_details.total_blocks - 1
    /\ \E b \in Processed : stored[b].split
    /\ block_index[1] # ZeroEntry
    /\ block_index[block + 1] = ZeroEntry
    /\ block_index[block + 2] = ZeroEntry

\* C18: pad_file appends exactly 1024 - (len mod 1024) bytes to a file of
\* length len, between 1 and 1024; an aligned file grows by 1024.
C18_PadAmount ==
    [][pc = "pad" =>
          \A f \in FileNames :
              fs[f].exists =>
                 LET added == fs'[f].len - fs[f].len
                 IN /\ added = 1024 - (fs[f].len % 1024)
                    /\ added \in 1 .. 1024
                    /\ (fs[f].len % 1024 = 0 => added = 1024)]_vars

C18_Witness ==
    /\ pc = "done"
    /\ Len(opened) = 4
    /\ write_pos % 1024 = 0
    /\ fs[SPLIT_FILE].len = write_pos + 1024
    /\ fs[FIRST_FILE].len % 1024 = 0

====
